---- MODULE Spec2Model ----
(***************************************************************************)
(* The agent supervisor of Agents_a2a: agent_server_manager.py             *)
(* (AgentServerManager, ConfigFileHandler) together with the controller    *)
(* that starts and stops it (agent_controller.py).                         *)
(*                                                                         *)
(* Threads of the manager process: "main" (__init__, run), "watcher" (the  *)
(* watchdog observer thread that calls ConfigFileHandler.on_modified) and  *)
(* one registration thread per successfully spawned worker.                *)
(***************************************************************************)
EXTENDS Integers, Sequences, FiniteSets, TLC

\* ---------------------------------------------------------------- bounds
MaxSpawn == 2          \* worker processes spawned in one run of the manager
MaxEvents == 1         \* config.json events waiting in the observer's queue

\* ------------------------------------------------------ program constants
MaxRetries == 15       \* _start_discovery_engine: max_retries
Cooldown == 1          \* ConfigFileHandler.cooldown
PollLimit == 10        \* stop_agent_manager: range(10)

\* ---------------------------------------------------------------- inputs
Names == {"A", "B"}
Entries ==
    { [name |-> "A", port |-> 7001],
      [name |-> "A", port |-> 7003],
      [name |-> "B", port |-> 7002] }

\* A configuration document: an array of entries, here listed in the order
\* A, B, or a document that cannot be read or parsed (ok = FALSE).  The
\* names of a document are unique but for one document that names A twice:
\* nothing in load_config checks the names.
DuplicateNames == << [name |-> "A", port |-> 7001], [name |-> "A", port |-> 7003] >>
Documents ==
    { <<>> } \cup { <<e>> : e \in Entries }
      \cup { p \in Entries \X Entries : p[1].name = "A" /\ p[2].name = "B" }
      \cup { DuplicateNames }
BadConfig == [ok |-> FALSE, agents |-> <<>>]
Configs == { [ok |-> TRUE, agents |-> d] : d \in Documents } \cup { BadConfig }

Threads == { "main", "watcher" }

\* The credential variables of the environment: OPENAI_API_KEY,
\* AZURE_OPENAI_API_KEY, AZURE_OPENAI_ENDPOINT, AZURE_OPENAI_API_VERSION,
\* each set or not.  Every environment without the OpenAI key and without
\* the complete Azure triple, and one with credentials (the OpenAI key
\* alone).
Environments ==
    { e \in [openai : BOOLEAN, azure_key : BOOLEAN, azure_endpoint : BOOLEAN,
             azure_version : BOOLEAN] :
        /\ ~(e.azure_key /\ e.azure_endpoint /\ e.azure_version)
        /\ e.openai => ~(e.azure_key \/ e.azure_endpoint \/ e.azure_version) }

VARIABLES
    config,             \* agents/config.json as it is on disk
    events,             \* number of config.json modification events queued
                        \* for the observer thread
    elapsed,            \* time.time() - last_modified, capped at Cooldown + 1
    foreign,            \* who else holds the registry port: none/registry/other
    creds,              \* the credential variables of the environment
    pc,                 \* position of the main and the watcher thread
    cfg,                \* per thread: config["agents"] loaded by the pass
    idx,                \* per thread: index of the start loop over cfg
    todo,               \* per thread: rest of list(self.running_agents)
    cur,                \* per thread: pid of the process stop_agent waits for
    failing,            \* main is in run()'s "except Exception" handler
    discovery_process,  \* self.discovery_process: none/starting/up/exited
    retry_count,        \* _start_discovery_engine: retry_count
    probes,             \* history: health probes made by the bootstrap, kept
                        \* until start_all_agents begins
    healthy_seen,       \* history: some bootstrap probe returned 200
    processes,          \* self.processes: name -> pid, 0 when absent
    running_agents,     \* self.running_agents
    spawned,            \* every worker spawned: process and its registration thread
    stop_registration,  \* self.stop_registration (threading.Event)
    reg_failed,         \* history: some registration attempt has raised
    observer,           \* the watchdog Observer: none/running/stopped
    ctl,                \* AgentController: position, poll count, last result
    stop_file,          \* agents/stop_signal.txt exists
    loadOk,             \* history: the watcher's pass read the document
    lfail,              \* history: a launch failed in the watcher's pass
    streak,             \* history: 1 when the watcher has completed a pass and
                        \* since then the document, the worker processes and
                        \* main (asleep in its loop) have not changed
    clean,              \* history: no launch failed in the passes of the streak
    runner_pc,          \* agent_runner.py: position of its main thread
    runner_agents,      \* agent_runner.main: agents = load_agent_configs()
    running_processes,  \* agent_runner.running_processes: name -> pid, 0 absent
    runner_spawned,     \* every process agent_runner has spawned
    runner_idx,         \* agent_runner.main: index of "for agent in agents"
    sweep,              \* agent_runner.main: rest of list(running_processes.items())
    uds,                \* the socket file at each agent's uds_path
    runner_new,         \* start_agent: process returned by Popen, not yet stored
    runner_last         \* what the last start_agent call logged

envVars == <<config, events, elapsed, foreign, creds>>
frameVars == <<cfg, idx, todo, cur>>
bootVars == <<discovery_process, retry_count, probes, healthy_seen>>
fleetVars == <<processes, running_agents, spawned>>
regVars == <<stop_registration, reg_failed>>
ctlVars == <<ctl, stop_file>>
histVars == <<loadOk, lfail, streak, clean>>
runnerVars == <<runner_pc, runner_agents, running_processes, runner_spawned,
                runner_idx, sweep, uds, runner_new, runner_last>>
vars == <<envVars, pc, frameVars, failing, bootVars, fleetVars, regVars,
          observer, ctlVars, histVars, runnerVars>>

\* ---------------------------------------------------------------- helpers
NamesOf(agents) == { agents[i].name : i \in 1..Len(agents) }

\* load_config: the document, or {"agents": []} when reading it raises.
LoadConfig(doc) == IF doc.ok THEN doc.agents ELSE <<>>

\* _is_discovery_engine_running: GET /health answers 200.
IsDiscoveryEngineRunning == foreign = "registry" \/ discovery_process = "up"

\* Mutant: the bind() test never reports the port in use.
IsPortInUse_Never == FALSE

\* _is_port_in_use: bind() on the registry port fails.
IsPortInUse == foreign # "none"

Ended == { "init_failed", "aborted", "killed", "exit0", "raised" }
ManagerAlive == pc["main"] \notin Ended

NoFrame(t) ==
    /\ cfg' = [cfg EXCEPT ![t] = <<>>]
    /\ idx' = [idx EXCEPT ![t] = 0]
    /\ todo' = [todo EXCEPT ![t] = {}]
    /\ cur' = [cur EXCEPT ![t] = 0]

Init ==
    /\ config \in Configs
    /\ events = 0
    /\ elapsed = 0
    /\ foreign \in { "none", "registry", "other" }
    /\ creds \in Environments
    /\ pc = [t \in Threads |-> IF t = "main" THEN "validate" ELSE "off"]
    /\ cfg = [t \in Threads |-> <<>>]
    /\ idx = [t \in Threads |-> 0]
    /\ todo = [t \in Threads |-> {}]
    /\ cur = [t \in Threads |-> 0]
    /\ failing = FALSE
    /\ discovery_process = "none"
    /\ retry_count = 0
    /\ probes = 0
    /\ healthy_seen = FALSE
    /\ processes = [n \in Names |-> 0]
    /\ running_agents = {}
    /\ spawned = <<>>
    /\ stop_registration = FALSE
    /\ reg_failed = FALSE
    /\ observer = "none"
    /\ ctl = [pc |-> "holding", polls |-> 0, result |-> "none"]
    /\ stop_file = FALSE
    /\ loadOk = TRUE
    /\ lfail = FALSE
    /\ streak = 0
    /\ clean = TRUE
    /\ runner_pc = "load"
    /\ runner_agents = <<>>
    /\ running_processes = [n \in Names |-> 0]
    /\ runner_spawned = <<>>
    /\ runner_idx = 0
    /\ sweep = {}
    /\ uds = [n \in Names |-> "none"]
    /\ runner_new = 0
    /\ runner_last = "none"

\* ------------------------------------------------- __init__: bootstrapping

\* Mutant: the Azure key alone counts as Azure credentials.
ValidCredentials_KeyOnly(env) == env.openai \/ env.azure_key

\* _validate_credentials: has_openai or has_azure.
ValidCredentials(env) ==
    LET has_openai == env.openai
        has_azure == env.azure_key /\ env.azure_endpoint /\ env.azure_version
    IN  has_openai \/ has_azure

\* __init__ -> _validate_credentials: raises when no credentials are set.
ValidateCredentials ==
    /\ pc["main"] = "validate"
    /\ pc' = [pc EXCEPT !["main"] =
                IF ValidCredentials(creds) THEN "probe0" ELSE "init_failed"]
    /\ UNCHANGED <<envVars, frameVars, failing, bootVars, fleetVars, regVars,
                   observer, ctlVars, histVars>>
    /\ UNCHANGED runnerVars

\* Mutant: the failure of _start_discovery_engine is not raised.
EnsureDiscoveryEngine_NoRaise(ok) == "start_all"

\* _ensure_discovery_engine: raise unless _start_discovery_engine returned
\* True; __init__ then fails and main() never reaches run().
EnsureDiscoveryEngine(ok) == IF ok THEN "start_all" ELSE "init_failed"

\* Mutant: a healthy first probe does not return; the port is checked next.
AfterInitialProbe_NoReturn(healthy) == "portcheck"

\* _start_discovery_engine: "if self._is_discovery_engine_running(): return
\* True", else go on to the port check.
AfterInitialProbe(healthy) ==
    IF healthy THEN EnsureDiscoveryEngine(TRUE) ELSE "portcheck"

\* _start_discovery_engine, first statement: the pre-launch probe.
InitialProbe ==
    /\ pc["main"] = "probe0"
    /\ probes' = probes + 1
    /\ healthy_seen' = IsDiscoveryEngineRunning
    /\ pc' = [pc EXCEPT !["main"] = AfterInitialProbe(IsDiscoveryEngineRunning)]
    /\ UNCHANGED <<envVars, frameVars, failing, discovery_process, retry_count,
                   fleetVars, regVars, observer, ctlVars, histVars>>
    /\ UNCHANGED runnerVars

\* _start_discovery_engine: port already bound -> return False.
PortCheck ==
    /\ pc["main"] = "portcheck"
    /\ pc' = [pc EXCEPT !["main"] =
                IF IsPortInUse THEN EnsureDiscoveryEngine(FALSE) ELSE "spawn_disc"]
    /\ UNCHANGED <<envVars, frameVars, failing, bootVars, fleetVars, regVars,
                   observer, ctlVars, histVars>>
    /\ UNCHANGED runnerVars

\* _start_discovery_engine: Popen of the discovery engine; an exception
\* returns False.
SpawnDiscovery ==
    /\ pc["main"] = "spawn_disc"
    /\ \E ok \in BOOLEAN :
         IF ok
         THEN /\ discovery_process' = "starting"
              /\ retry_count' = 0
              /\ pc' = [pc EXCEPT !["main"] = "poll"]
         ELSE /\ pc' = [pc EXCEPT !["main"] = EnsureDiscoveryEngine(FALSE)]
              /\ UNCHANGED <<discovery_process, retry_count>>
    /\ UNCHANGED <<envVars, frameVars, failing, probes, healthy_seen, fleetVars,
                   regVars, observer, ctlVars, histVars>>
    /\ UNCHANGED runnerVars

\* Mutant: off by one, "retry_count <= max_retries".
RetryLoopCond_OffByOne(rc) == rc <= MaxRetries

\* while retry_count < max_retries
RetryLoopCond(rc) == rc < MaxRetries

\* One iteration of the wait loop: probe; on 200 return True; else sleep,
\* count the retry and return False if the child has exited.  After the
\* loop: timeout, return False.
PollDiscovery ==
    /\ pc["main"] = "poll"
    /\ IF RetryLoopCond(retry_count)
       THEN /\ probes' = probes + 1
            /\ IF IsDiscoveryEngineRunning
               THEN /\ healthy_seen' = TRUE
                    /\ pc' = [pc EXCEPT !["main"] = EnsureDiscoveryEngine(TRUE)]
                    /\ UNCHANGED retry_count
               ELSE /\ retry_count' = retry_count + 1
                    /\ pc' = [pc EXCEPT !["main"] =
                                IF discovery_process = "exited"
                                THEN EnsureDiscoveryEngine(FALSE) ELSE "poll"]
                    /\ UNCHANGED healthy_seen
       ELSE /\ pc' = [pc EXCEPT !["main"] = EnsureDiscoveryEngine(FALSE)]
            /\ UNCHANGED <<probes, healthy_seen, retry_count>>
    /\ UNCHANGED <<envVars, frameVars, failing, discovery_process, fleetVars,
                   regVars, observer, ctlVars, histVars>>
    /\ UNCHANGED runnerVars

\* ------------------------------------------------------ worker operations

\* Mutant: start_agent without its "already running" test.
AlreadyRunning_Never(name) == FALSE

\* start_agent: "if agent_name in self.running_agents" -> already running.
AlreadyRunning(name) == name \in running_agents

\* Mutant: the name is added to running_agents before Popen is tried and
\* stays there when Popen raises.
StartAgent_RecordOnFailure(info, ok, stub) ==
    IF AlreadyRunning(info.name)
    THEN UNCHANGED fleetVars
    ELSE IF ok
         THEN /\ spawned' = Append(spawned,
                     [name |-> info.name, port |-> info.port,
                      stubborn |-> stub, alive |-> TRUE, reg |-> "run"])
              /\ processes' = [processes EXCEPT ![info.name] = Len(spawned) + 1]
              /\ running_agents' = running_agents \cup { info.name }
         ELSE /\ running_agents' = running_agents \cup { info.name }
              /\ UNCHANGED <<processes, spawned>>

\* Mutant: a started worker gets its handle in processes but its name is
\* not added to running_agents.
StartAgent_ForgetsRunningSet(info, ok, stub) ==
    IF AlreadyRunning(info.name) \/ ~ok
    THEN UNCHANGED fleetVars
    ELSE /\ spawned' = Append(spawned,
                [name |-> info.name, port |-> info.port, stubborn |-> stub,
                 alive |-> TRUE, reg |-> "run"])
         /\ processes' = [processes EXCEPT ![info.name] = Len(spawned) + 1]
         /\ UNCHANGED running_agents

\* start_agent for entry info; ok: Popen succeeded, stub: the new process
\* ignores SIGTERM.  On success the process is recorded in processes and
\* running_agents and register_agent starts its registration thread; a
\* Popen exception is caught and nothing is recorded.
StartAgent(info, ok, stub) ==
    IF AlreadyRunning(info.name) \/ ~ok
    THEN UNCHANGED fleetVars
    ELSE /\ spawned' = Append(spawned,
                [name |-> info.name, port |-> info.port, stubborn |-> stub,
                 alive |-> TRUE, reg |-> "run"])
         /\ processes' = [processes EXCEPT ![info.name] = Len(spawned) + 1]
         /\ running_agents' = running_agents \cup { info.name }

\* Mutant: the membership test inverted.
NoLongerInConfig_Inverted(name, agents) == name \in NamesOf(agents)

\* Mutant: the name is looked up among the entries, not among their names,
\* and is never found.
NoLongerInConfig_Always(name, agents) == TRUE

\* update_agents: "if agent_name not in current_agents" -> stop it.
NoLongerInConfig(name, agents) == name \notin NamesOf(agents)

\* update_agents: "if agent_info['name'] not in self.running_agents".
IsNewAgent(info) == info.name \notin running_agents

\* What a thread does after its stop loop and after its start loop.
AfterStops(t) == IF t = "watcher" THEN "starts" ELSE "sd_disc"
AfterStarts(t) == IF t = "watcher" THEN "ret" ELSE "observe"

\* An exception escaping a thread.  The watcher: the observer thread dies.
\* main: run()'s "except Exception" calls stop_all_agents() once more and
\* re-raises; an exception in the handler itself ends the process.
Raise(t) ==
    IF t = "watcher"
    THEN /\ pc' = [pc EXCEPT ![t] = "dead"]
         /\ UNCHANGED failing
    ELSE /\ pc' = [pc EXCEPT ![t] = IF failing THEN "raised" ELSE "sd_set"]
         /\ failing' = TRUE

\* One iteration of a start loop (update_agents lines 218-220,
\* start_all_agents lines 225-226).
StartStep(t) ==
    /\ ManagerAlive
    /\ pc[t] = "starts"
    /\ IF idx[t] > Len(cfg[t])
       THEN /\ pc' = [pc EXCEPT ![t] = AfterStarts(t)]
            /\ UNCHANGED <<fleetVars, idx, lfail>>
       ELSE /\ idx' = [idx EXCEPT ![t] = idx[t] + 1]
            /\ UNCHANGED pc
            /\ IF t = "watcher" /\ ~IsNewAgent(cfg[t][idx[t]])
               THEN UNCHANGED <<fleetVars, lfail>>
               ELSE /\ Len(spawned) < MaxSpawn
                    /\ \E ok \in BOOLEAN, stub \in BOOLEAN :
                         /\ StartAgent(cfg[t][idx[t]], ok, stub)
                         /\ lfail' = IF t = "watcher" /\ ~ok
                                        /\ ~AlreadyRunning(cfg[t][idx[t]].name)
                                     THEN TRUE ELSE lfail
    /\ UNCHANGED <<envVars, cfg, todo, cur, failing, bootVars, regVars,
                   observer, ctlVars, loadOk, streak, clean>>
    /\ UNCHANGED runnerVars

\* process.terminate(): SIGTERM ends a process unless it ignores the signal.
Terminate(p) ==
    IF spawned[p].stubborn THEN spawned ELSE [spawned EXCEPT ![p].alive = FALSE]

\* One iteration of a stop loop (update_agents lines 213-215,
\* stop_all_agents lines 232-233) up to stop_agent's process.terminate().
StopStep(t) ==
    /\ ManagerAlive
    /\ pc[t] = "stops"
    /\ IF todo[t] = {}
       THEN /\ pc' = [pc EXCEPT ![t] = AfterStops(t)]
            /\ idx' = [idx EXCEPT ![t] = IF t = "watcher" THEN 1 ELSE 0]
            /\ UNCHANGED <<todo, cur, spawned>>
       ELSE \E n \in todo[t] :
            /\ todo' = [todo EXCEPT ![t] = todo[t] \ { n }]
            /\ UNCHANGED idx
            /\ IF (t = "watcher" /\ ~NoLongerInConfig(n, cfg[t])) \/ processes[n] = 0
               THEN UNCHANGED <<pc, cur, spawned>>
               ELSE /\ spawned' = Terminate(processes[n])
                    /\ cur' = [cur EXCEPT ![t] = processes[n]]
                    /\ pc' = [pc EXCEPT ![t] = "wait"]
    /\ UNCHANGED <<envVars, cfg, failing, bootVars, processes, running_agents,
                   regVars, observer, ctlVars, histVars>>
    /\ UNCHANGED runnerVars

\* Mutant: stop_agent does not wait for the process.
WaitReturns_Immediately(p) == TRUE

\* process.wait() has returned.
WaitReturns(p) == ~spawned[p].alive

\* stop_agent after terminate(): process.wait(), del self.processes[name],
\* self.running_agents.remove(name); either of the two raises KeyError when
\* the name is gone.
WaitStep(t) ==
    /\ ManagerAlive
    /\ pc[t] = "wait"
    /\ WaitReturns(cur[t])
    /\ LET n == spawned[cur[t]].name IN
       /\ cur' = [cur EXCEPT ![t] = 0]
       /\ IF processes[n] = 0
          THEN /\ Raise(t)
               /\ UNCHANGED <<processes, running_agents>>
          ELSE /\ processes' = [processes EXCEPT ![n] = 0]
               /\ IF n \notin running_agents
                  THEN /\ Raise(t)
                       /\ UNCHANGED running_agents
                  ELSE /\ running_agents' = running_agents \ { n }
                       /\ pc' = [pc EXCEPT ![t] = "stops"]
                       /\ UNCHANGED failing
    /\ UNCHANGED <<envVars, cfg, idx, todo, bootVars, spawned, regVars,
                   observer, ctlVars, histVars>>
    /\ UNCHANGED runnerVars


\* ------------------------------------------------------------ main: run()

\* start_all_agents: load_config, then the start loop.
StartAllAgents ==
    /\ pc["main"] = "start_all"
    /\ cfg' = [cfg EXCEPT !["main"] = LoadConfig(config)]
    /\ idx' = [idx EXCEPT !["main"] = 1]
    /\ pc' = [pc EXCEPT !["main"] = "starts"]
    /\ retry_count' = 0
    /\ probes' = 0
    /\ UNCHANGED <<envVars, todo, cur, failing, discovery_process, healthy_seen,
                   fleetVars, regVars, observer, ctlVars, histVars>>
    /\ UNCHANGED runnerVars

\* run: ConfigFileHandler(self) sets last_modified = time.time(); the
\* observer is scheduled and started; main enters "while True: sleep(1)".
StartObserver ==
    /\ pc["main"] = "observe"
    /\ observer' = "running"
    /\ elapsed' = 0
    /\ pc' = [t \in Threads |-> IF t = "main" THEN "loop" ELSE "idle"]
    /\ NoFrame("main")
    /\ UNCHANGED <<config, events, foreign, creds, failing, bootVars, fleetVars,
                   regVars, ctlVars, histVars>>
    /\ UNCHANGED runnerVars

\* "except KeyboardInterrupt": observer.stop().  Events still queued are
\* never dispatched and the handler's clock is never read again.
StopObserver ==
    /\ pc["main"] = "interrupted"
    /\ observer' = "stopped"
    /\ events' = 0
    /\ elapsed' = 0
    /\ pc' = [pc EXCEPT !["main"] = "sd_set"]
    /\ UNCHANGED <<config, foreign, creds, frameVars, failing, bootVars,
                   fleetVars, regVars, ctlVars, histVars>>
    /\ UNCHANGED runnerVars

\* stop_all_agents: stop_registration.set() and list(self.running_agents).
StopAllAgents ==
    /\ pc["main"] = "sd_set"
    /\ stop_registration' = TRUE
    /\ todo' = [todo EXCEPT !["main"] = running_agents]
    /\ pc' = [pc EXCEPT !["main"] = "stops"]
    /\ UNCHANGED <<envVars, cfg, idx, cur, failing, bootVars, fleetVars, reg_failed,
                   observer, ctlVars, histVars>>
    /\ UNCHANGED runnerVars

\* stop_all_agents: "if self.discovery_process": terminate() and wait().
\* Back in run(): the "except Exception" handler re-raises, the
\* KeyboardInterrupt handler goes on to observer.join().
StopDiscovery ==
    /\ pc["main"] = "sd_disc"
    /\ discovery_process' =
         IF discovery_process = "none" THEN "none" ELSE "exited"
    /\ pc' = [pc EXCEPT !["main"] = IF failing THEN "raised" ELSE "join"]
    /\ UNCHANGED <<envVars, frameVars, failing, retry_count, probes,
                   healthy_seen, fleetVars, regVars, observer, ctlVars, histVars>>
    /\ UNCHANGED runnerVars

\* observer.join() returns once the observer thread has left its handler;
\* run() and main() return and the process exits 0.
JoinObserver ==
    /\ pc["main"] = "join"
    /\ pc["watcher"] \in { "idle", "dead" }
    /\ pc' = [pc EXCEPT !["main"] = "exit0"]
    /\ UNCHANGED <<envVars, frameVars, failing, bootVars, fleetVars, regVars,
                   observer, ctlVars, histVars>>
    /\ UNCHANGED runnerVars

\* ------------------------------------------- watcher: ConfigFileHandler

\* on_modified: the event is for config.json.
IsConfigEvent(path) == path = "config.json"

\* Mutant: the cooldown test is ">=".
CooldownOver_Inclusive == elapsed >= Cooldown

\* on_modified: "current_time - self.last_modified > self.cooldown".
CooldownOver == elapsed > Cooldown

\* on_modified(event) in the idle observer thread.  A handled event sets
\* last_modified and calls update_agents, which loads the configuration and
\* snapshots list(self.running_agents); any other event is dropped.
HandleEvent(path) ==
    /\ ManagerAlive
    /\ pc["watcher"] = "idle"
    /\ observer = "running"
    /\ IF IsConfigEvent(path) /\ CooldownOver
       THEN /\ elapsed' = 0
            /\ cfg' = [cfg EXCEPT !["watcher"] = LoadConfig(config)]
            /\ todo' = [todo EXCEPT !["watcher"] = running_agents]
            /\ pc' = [pc EXCEPT !["watcher"] = "stops"]
            /\ loadOk' = config.ok
            /\ lfail' = FALSE
       ELSE UNCHANGED <<elapsed, cfg, todo, pc, loadOk, lfail>>
    /\ UNCHANGED <<config, foreign, creds, idx, cur, failing, bootVars,
                   fleetVars, regVars, observer, ctlVars, streak, clean>>
    /\ UNCHANGED runnerVars

\* The observer thread dispatches the next queued config.json event.
OnModified ==
    /\ events > 0
    /\ events' = events - 1
    /\ HandleEvent("config.json")

\* Another file of the agents/ directory is modified and the observer
\* thread dispatches its event.
OtherFileModified ==
    /\ UNCHANGED events
    /\ HandleEvent("other")

\* update_agents returns to on_modified; the observer thread waits for the
\* next event.
UpdateReturns ==
    /\ ManagerAlive
    /\ pc["watcher"] = "ret"
    /\ pc' = [pc EXCEPT !["watcher"] = "idle"]
    /\ NoFrame("watcher")
    /\ streak' = IF /\ pc["main"] = "loop"
                    /\ streak = 1 \/ cfg["watcher"] = LoadConfig(config)
                 THEN 1 ELSE 0
    /\ clean' = IF streak' = 1 THEN clean /\ ~lfail ELSE TRUE
    /\ loadOk' = TRUE
    /\ lfail' = FALSE
    /\ UNCHANGED <<envVars, failing, bootVars, fleetVars, regVars, observer,
                   ctlVars>>
    /\ UNCHANGED runnerVars

\* ------------------------------------ registration: periodic_registration

\* Mutant: the try/except encloses the while loop, so an exception ends it.
AfterAttempt_BreakOnError(ok) == IF ok THEN "run" ELSE "done"

\* periodic_registration: what the loop does after an attempt.  The
\* try/except is inside the while loop, so a failed attempt goes on to
\* sleep(30) and the next iteration like a successful one.
AfterAttempt(ok) == "run"

\* One iteration of "while not self.stop_registration.is_set()" of the
\* thread started for spawned[i]; ok: enable_discovery did not raise.
RegistrationTick(i) ==
    /\ ManagerAlive
    /\ spawned[i].reg = "run"
    /\ IF stop_registration
       THEN /\ spawned' = [spawned EXCEPT ![i].reg = "done"]
            /\ UNCHANGED reg_failed
       ELSE \E ok \in BOOLEAN :
            /\ reg_failed' = (reg_failed \/ ~ok)
            /\ spawned' = [spawned EXCEPT ![i].reg = AfterAttempt(ok)]
    /\ UNCHANGED <<envVars, pc, frameVars, failing, bootVars, processes,
                   running_agents, stop_registration, observer, ctlVars, histVars>>
    /\ UNCHANGED runnerVars

\* ------------------------------------------------------------ environment

\* The manager reads the document, the event queue and the clock only in
\* start_all_agents and at the start of on_modified.  A write, an event or
\* a tick that falls inside a pass is therefore taken at the end of that
\* pass: the environment moves while the watcher is between passes and
\* main is between start_all_agents and observer.stop().
BetweenPasses ==
    /\ pc["watcher"] \in { "off", "idle" }
    /\ pc["main"] \in { "observe", "loop", "interrupted" }

\* An external writer replaces agents/config.json; the running observer
\* queues a modification event.
WriteConfig(c) ==
    /\ BetweenPasses
    /\ config' = c
    /\ IF observer = "running"
       THEN /\ events < MaxEvents
            /\ events' = events + 1
       ELSE UNCHANGED events
    /\ streak' = IF c = config THEN streak ELSE 0
    /\ clean' = IF c = config THEN clean ELSE TRUE
    /\ UNCHANGED <<elapsed, foreign, creds, pc, frameVars, failing, bootVars,
                   fleetVars, regVars, observer, ctlVars, loadOk, lfail>>
    /\ UNCHANGED runnerVars

\* Time passes.
Tick ==
    /\ BetweenPasses
    /\ observer = "running"
    /\ elapsed <= Cooldown
    /\ elapsed' = elapsed + 1
    /\ UNCHANGED <<config, events, foreign, creds, pc, frameVars, failing,
                   bootVars, fleetVars, regVars, observer, ctlVars, histVars>>
    /\ UNCHANGED runnerVars

\* A worker process exits on its own.
WorkerExits(p) ==
    /\ ManagerAlive
    /\ spawned[p].alive
    /\ spawned' = [spawned EXCEPT ![p].alive = FALSE, ![p].stubborn = FALSE]
    /\ streak' = 0
    /\ clean' = TRUE
    /\ UNCHANGED <<envVars, pc, frameVars, failing, bootVars, processes,
                   running_agents, regVars, observer, ctlVars, loadOk, lfail>>
    /\ UNCHANGED runnerVars

\* The spawned discovery engine starts answering /health.
DiscoveryReady ==
    /\ pc["main"] = "poll"
    /\ discovery_process = "starting"
    /\ foreign = "none"
    /\ discovery_process' = "up"
    /\ UNCHANGED <<envVars, pc, frameVars, failing, retry_count, probes,
                   healthy_seen, fleetVars, regVars, observer, ctlVars, histVars>>
    /\ UNCHANGED runnerVars

\* The spawned discovery engine exits on its own while the manager waits
\* for it.
DiscoveryExits ==
    /\ pc["main"] = "poll"
    /\ discovery_process \in { "starting", "up" }
    /\ discovery_process' = "exited"
    /\ UNCHANGED <<envVars, pc, frameVars, failing, retry_count, probes,
                   healthy_seen, fleetVars, regVars, observer, ctlVars, histVars>>
    /\ UNCHANGED runnerVars

\* The manager process ends without running any handler: its threads stop
\* where they are and their locals, the event queue and the handler's clock
\* are gone.  The child processes are not affected.
ProcessGone(how) ==
    /\ pc' = [t \in Threads |-> IF t = "main" THEN how ELSE "off"]
    /\ cfg' = [t \in Threads |-> <<>>]
    /\ idx' = [t \in Threads |-> 0]
    /\ todo' = [t \in Threads |-> {}]
    /\ cur' = [t \in Threads |-> 0]
    /\ events' = 0
    /\ elapsed' = 0
    /\ loadOk' = TRUE
    /\ lfail' = FALSE
    /\ streak' = 0
    /\ clean' = TRUE

\* SIGINT: KeyboardInterrupt in the main thread.  run() catches it only
\* around its sleep loop; anywhere before, it ends the process.
BeforeLoop ==
    { "validate", "probe0", "portcheck", "spawn_disc", "poll", "start_all",
      "starts", "observe" }
Sigint ==
    \/ /\ pc["main"] = "loop"
       /\ pc' = [pc EXCEPT !["main"] = "interrupted"]
       /\ streak' = 0
       /\ clean' = TRUE
       /\ UNCHANGED <<envVars, frameVars, failing, bootVars, fleetVars, regVars,
                      observer, ctlVars, loadOk, lfail, runnerVars>>
    \/ /\ pc["main"] \in BeforeLoop
       /\ ProcessGone("aborted")
       /\ UNCHANGED <<config, foreign, creds, failing, bootVars, fleetVars,
                      regVars, observer, ctlVars, runnerVars>>

\* SIGTERM: the manager installs no handler, so the process is terminated.
Sigterm ==
    /\ ManagerAlive
    /\ ProcessGone("killed")
    /\ UNCHANGED <<config, foreign, creds, failing, bootVars, fleetVars,
                   regVars, observer, ctlVars>>
    /\ UNCHANGED runnerVars

\* ------------------------------------------------------- AgentController

\* stop_agent_manager: write the stop file.
CtlWriteStopFile ==
    /\ ctl.pc = "holding"
    /\ stop_file' = TRUE
    /\ ctl' = [pc |-> "polling", polls |-> 0, result |-> "none"]
    /\ UNCHANGED <<envVars, pc, frameVars, failing, bootVars, fleetVars, regVars,
                   observer, histVars>>
    /\ UNCHANGED runnerVars

\* stop_agent_manager: "for _ in range(10)": break when the manager has
\* exited, else sleep(1).
CtlPoll ==
    /\ ctl.pc = "polling"
    /\ ctl' = IF ManagerAlive /\ ctl.polls < PollLimit
              THEN [ctl EXCEPT !.polls = ctl.polls + 1]
              ELSE [ctl EXCEPT !.pc = "finish"]
    /\ UNCHANGED <<envVars, pc, frameVars, failing, bootVars, fleetVars, regVars,
                   observer, stop_file, histVars>>
    /\ UNCHANGED runnerVars

\* Mutant: the test before the force kill never finds the manager running.
StillRunning_Never == FALSE

\* stop_agent_manager: "if self.manager_process.poll() is None" after the
\* wait loop.
StillRunning == ManagerAlive

\* stop_agent_manager: kill the manager if it still runs, remove the stop
\* file, forget the handle; returns True.
CtlFinish ==
    /\ ctl.pc = "finish"
    /\ IF StillRunning
       THEN ProcessGone("killed")
       ELSE UNCHANGED <<pc, frameVars, events, elapsed, histVars>>
    /\ stop_file' = FALSE
    /\ ctl' = [ctl EXCEPT !.pc = "stopped", !.result = "true"]
    /\ UNCHANGED <<config, foreign, creds, failing, bootVars, fleetVars,
                   regVars, observer>>
    /\ UNCHANGED runnerVars

\* stop_agent_manager called while self.manager_process is None: a warning
\* is logged and False returned.
CtlStopWithoutHandle ==
    /\ ctl.pc = "stopped"
    /\ ctl' = [ctl EXCEPT !.result = "false"]
    /\ UNCHANGED <<envVars, pc, frameVars, failing, bootVars, fleetVars, regVars,
                   observer, stop_file, histVars>>
    /\ UNCHANGED runnerVars

\* is_running: a handle is held and its poll() is None.
IsRunning == ctl.pc # "stopped" /\ ManagerAlive

\* ------------------------------------------------------- agent_runner.py

managerVars == <<envVars, pc, frameVars, failing, bootVars, fleetVars, regVars,
                 observer, ctlVars, histVars>>

\* load_agent_configs: json.load(f)["agents"], or [] when that raises.
LoadAgentConfigs(doc) == IF doc.ok THEN doc.agents ELSE <<>>

\* main: signal handlers registered, agents = load_agent_configs().
RunnerLoad ==
    /\ runner_pc = "load"
    /\ runner_agents' = LoadAgentConfigs(config)
    /\ runner_idx' = 1
    /\ runner_pc' = "start"
    /\ UNCHANGED <<managerVars, running_processes, runner_spawned, sweep, uds,
                   runner_new, runner_last>>

\* start_agent: os.path.exists(uds_path) and os.remove(uds_path) raises.
SocketRemovalFails(name) == uds[name] = "stuck"

\* agent_runner.start_agent up to the return of Popen.  A socket file that
\* cannot be removed: the error is logged and the function returns.
\* Otherwise the file is removed and Popen is called; ok = FALSE: Popen
\* raised, which is logged.  The new process binds its socket.
RunnerStartAgent(info, ok) ==
    IF SocketRemovalFails(info.name)
    THEN /\ runner_last' = "remove_failed"
         /\ UNCHANGED <<runner_spawned, runner_new, uds>>
    ELSE IF ok
         THEN /\ runner_spawned' = Append(runner_spawned,
                                           [name |-> info.name, alive |-> TRUE])
              /\ runner_new' = Len(runner_spawned) + 1
              /\ uds' = [uds EXCEPT ![info.name] = "file"]
              /\ UNCHANGED runner_last
         ELSE /\ runner_last' = "popen_failed"
              /\ uds' = [uds EXCEPT ![info.name] = "none"]
              /\ UNCHANGED <<runner_spawned, runner_new>>

\* start_agent after Popen: running_processes[agent_name] = process (whatever
\* was recorded before), then the "Started agent" log line.
RunnerRecord ==
    /\ runner_pc \in { "start", "sweeping" }
    /\ runner_new # 0
    /\ running_processes' =
         [running_processes EXCEPT ![runner_spawned[runner_new].name] = runner_new]
    /\ runner_new' = 0
    /\ runner_last' = "started"
    /\ UNCHANGED <<managerVars, runner_pc, runner_agents, runner_spawned,
                   runner_idx, sweep, uds>>

\* main: one iteration of "for agent in agents: start_agent(agent)"; after
\* the loop the first pass of "while True" snapshots
\* list(running_processes.items()).
RunnerStartStep ==
    /\ runner_pc = "start"
    /\ runner_new = 0
    /\ IF runner_idx > Len(runner_agents)
       THEN /\ runner_pc' = "sweeping"
            /\ sweep' = { <<n, running_processes[n]>> :
                            n \in { m \in Names : running_processes[m] # 0 } }
            /\ UNCHANGED <<runner_idx, runner_spawned, runner_new, uds,
                           runner_last>>
       ELSE /\ \E ok \in BOOLEAN : RunnerStartAgent(runner_agents[runner_idx], ok)
            /\ runner_idx' = runner_idx + 1
            /\ UNCHANGED <<runner_pc, sweep>>
    /\ UNCHANGED <<managerVars, runner_agents, running_processes>>

\* main: agent_config = next((a for a in agents if a["name"] == name), None)
ConfigOf(name) ==
    LET ks == { k \in 1..Len(runner_agents) : runner_agents[k].name = name } IN
    IF ks = {} THEN <<>>
    ELSE << runner_agents[CHOOSE k \in ks : \A j \in ks : k <= j] >>

\* main: one iteration of the sweep over the snapshot: a handle whose
\* process has exited is deleted and its agent started again; after the
\* last item the thread blocks in signal.pause().
RunnerSweepStep ==
    /\ runner_pc = "sweeping"
    /\ runner_new = 0
    /\ IF sweep = {}
       THEN /\ runner_pc' = "pause"
            /\ UNCHANGED <<sweep, runner_spawned, running_processes, runner_new,
                           uds, runner_last>>
       ELSE \E item \in sweep :
            /\ sweep' = sweep \ { item }
            /\ UNCHANGED runner_pc
            /\ IF runner_spawned[item[2]].alive
               THEN UNCHANGED <<runner_spawned, running_processes, runner_new,
                                uds, runner_last>>
               ELSE /\ running_processes' =
                         [running_processes EXCEPT ![item[1]] = 0]
                    /\ IF ConfigOf(item[1]) = <<>>
                       THEN UNCHANGED <<runner_spawned, runner_new, uds,
                                        runner_last>>
                       ELSE \E ok \in BOOLEAN :
                                RunnerStartAgent(ConfigOf(item[1])[1], ok)
    /\ UNCHANGED <<managerVars, runner_agents, runner_idx>>

\* signal_handler for SIGINT and SIGTERM, run in the main thread between two
\* of its instructions: stop_all_agents terminates every recorded process,
\* kills it when wait(timeout=5) raises, and sys.exit(0).  The handles stay
\* in running_processes; a process not yet stored there is not touched.
RunnerSignal ==
    /\ runner_pc \notin { "load", "exit0" }
    /\ runner_spawned' =
         [ i \in 1..Len(runner_spawned) |->
             IF \E n \in Names : running_processes[n] = i
             THEN [runner_spawned[i] EXCEPT !.alive = FALSE]
             ELSE runner_spawned[i] ]
    /\ runner_pc' = "exit0"
    /\ sweep' = {}
    /\ UNCHANGED <<managerVars, runner_agents, running_processes, runner_idx,
                   uds, runner_new, runner_last>>

\* A process started by the runner exits on its own.  SIGCHLD has no
\* handler, so it does not end signal.pause().
RunnerWorkerExits(p) ==
    /\ runner_pc # "exit0"
    /\ runner_spawned[p].alive
    /\ runner_spawned' = [runner_spawned EXCEPT ![p].alive = FALSE]
    /\ UNCHANGED <<managerVars, runner_pc, runner_agents, running_processes,
                   runner_idx, sweep, uds, runner_new, runner_last>>

\* A socket file left at an agent's uds_path by an earlier run; kind "stuck":
\* the runner is not allowed to remove it.
RunnerSocketLeft(n, kind) ==
    /\ runner_pc = "load"
    /\ uds[n] = "none"
    /\ uds' = [uds EXCEPT ![n] = kind]
    /\ UNCHANGED <<managerVars, runner_pc, runner_agents, running_processes,
                   runner_spawned, runner_idx, sweep, runner_new, runner_last>>

\* ---------------------------------------------------------- specification
MainStep ==
    \/ ValidateCredentials
    \/ InitialProbe
    \/ PortCheck
    \/ SpawnDiscovery
    \/ PollDiscovery
    \/ StartAllAgents
    \/ StartStep("main")
    \/ StartObserver
    \/ StopObserver
    \/ StopAllAgents
    \/ StopStep("main")
    \/ WaitStep("main")
    \/ StopDiscovery
    \/ JoinObserver

WatcherStep ==
    \/ OnModified
    \/ OtherFileModified
    \/ StopStep("watcher")
    \/ WaitStep("watcher")
    \/ StartStep("watcher")
    \/ UpdateReturns

RegistrationStep == \E i \in 1..Len(spawned) : RegistrationTick(i)

EnvStep ==
    \/ \E c \in Configs : WriteConfig(c)
    \/ Tick
    \/ \E p \in 1..Len(spawned) : WorkerExits(p)
    \/ DiscoveryReady
    \/ DiscoveryExits
    \/ Sigint
    \/ Sigterm

CtlStep ==
    \/ CtlWriteStopFile
    \/ CtlPoll
    \/ CtlFinish
    \/ CtlStopWithoutHandle

Next == MainStep \/ WatcherStep \/ RegistrationStep \/ EnvStep

Spec == Init /\ [][Next]_vars


\* The manager together with the controller that stopped it: no SIGTERM from
\* elsewhere and nobody rewrites the configuration.
CtlEnvStep ==
    \/ Tick
    \/ \E p \in 1..Len(spawned) : WorkerExits(p)
    \/ DiscoveryReady
    \/ DiscoveryExits
    \/ Sigint

CtlNext == MainStep \/ RegistrationStep \/ CtlEnvStep \/ CtlStep

CtlSpec == Init /\ [][CtlNext]_vars

\* agent_runner.py on its own.  Its main thread takes its steps whenever it
\* can; signals and worker exits come from outside.
RunnerStep ==
    \/ RunnerLoad
    \/ RunnerStartStep
    \/ RunnerRecord
    \/ RunnerSweepStep

RunnerEnvStep ==
    \/ \E p \in 1..Len(runner_spawned) : RunnerWorkerExits(p)
    \/ RunnerSignal
    \/ \E n \in Names, kind \in { "file", "stuck" } : RunnerSocketLeft(n, kind)

RunnerNext == RunnerStep \/ RunnerEnvStep

RunnerSpec == Init /\ [][RunnerNext]_vars /\ WF_vars(RunnerStep)

\* ------------------------------------------------------------ properties

\* main has not begun to stop the fleet.
MainIdle == pc["main"] \in { "loop", "interrupted" }

\* The watcher has completed update_agents with no failed launch.
PassCompleted == pc["watcher"] = "ret" /\ ~lfail /\ MainIdle

\* C1: after one reconciliation pass (update_agents) in which every launch
\* succeeded, the set of running worker names is exactly the set of names
\* of the desired configuration D the pass loaded.
C1_RunningEqualsDesired ==
    PassCompleted => running_agents = NamesOf(cfg["watcher"])

\* C1 witness: a pass for D = [B] has completed after stopping A (spawned
\* first, now dead) and with B the only running worker.
C1_Witness ==
    /\ PassCompleted
    /\ NamesOf(cfg["watcher"]) = { "B" }
    /\ running_agents = { "B" }
    /\ Len(spawned) = 2
    /\ spawned[1].name = "A" /\ ~spawned[1].alive
    /\ processes["B"] = 2

\* C2 as stated: a pass that follows a completed pass with the same D and
\* no external change in between starts and stops nothing.
C2_Original ==
    [][(streak = 1 /\ streak' = 1) => UNCHANGED fleetVars]_vars

\* C2 amended: a pass that follows a completed pass with the same D, no
\* external change in between and no failed launch in the earlier pass
\* starts and stops nothing and leaves the running set, the process map
\* and the processes unchanged.
C2_IdempotentAfterCleanPass ==
    [][(streak = 1 /\ clean /\ streak' = 1) => UNCHANGED fleetVars]_vars

\* C2 witness: a second pass in a row has completed, the first one without
\* a failed launch, with a worker running.
C2_Witness ==
    /\ pc["watcher"] = "ret"
    /\ streak = 1
    /\ clean
    /\ running_agents # {}

\* spawned[i] has been removed from the process map by stop_agent.
Removed(i) == processes[spawned[i].name] # i /\ (\A t \in Threads : cur[t] # i)

\* The registration thread of spawned[i] can still make a registration call.
RegistrationCallPossible(i) ==
    ManagerAlive /\ spawned[i].reg = "run" /\ ~stop_registration

\* The document is readable and has no entry for the worker of spawned[i].
NotDesired(i) == config.ok /\ spawned[i].name \notin NamesOf(config.agents)

\* C3: once reconcile has removed a worker whose entry was taken out of
\* the desired set, its process is terminated, its Registration Loop is
\* cancelled and no further registration call for it can be made while
\* the supervisor keeps running.
C3_RemovedWorkerIsCancelled ==
    \A i \in 1..Len(spawned) :
        (MainIdle /\ NotDesired(i) /\ Removed(i)) =>
            (~spawned[i].alive /\ ~RegistrationCallPossible(i))

\* C4: after a pass whose D gives a running name another port, the worker
\* running under that name is one launched from the new entry.
C4_PortChangeRelaunches ==
    PassCompleted =>
        \A k \in 1..Len(cfg["watcher"]) :
            LET e == cfg["watcher"][k] IN
            /\ processes[e.name] # 0
            /\ spawned[processes[e.name]].port = e.port

\* C5: a pass whose load of the configuration failed stops no worker and
\* starts none.
C5_BadConfigKeepsFleet ==
    [][(~loadOk /\ pc["main"] = "loop") =>
         /\ running_agents' = running_agents
         /\ processes' = processes
         /\ Len(spawned') = Len(spawned)]_vars

BootStates == { "validate", "probe0", "portcheck", "spawn_disc", "poll" }

\* C6: while no health probe has succeeded the supervisor is still
\* bootstrapping or has failed or been ended: it never gets to run(), no
\* worker process is launched and no Registration Loop is started.
C6_NoWorkerWithoutRegistry ==
    ~healthy_seen =>
        /\ pc["main"] \in BootStates \cup { "init_failed", "aborted", "killed" }
        /\ Len(spawned) = 0

\* C6 witness: the retry budget is exhausted with the engine still starting
\* and construction has failed.
C6_Witness ==
    /\ pc["main"] = "init_failed"
    /\ ~healthy_seen
    /\ discovery_process = "starting"
    /\ retry_count = MaxRetries
    /\ Len(spawned) = 0

\* _start_discovery_engine returned False after launching the engine.
FailedAfterLaunch == pc["main"] = "init_failed" /\ discovery_process # "none"

C8_FailureKeepsLoop ==
    \A i \in 1..Len(spawned) : spawned[i].reg = "done" => stop_registration

\* C8 witness: an attempt has raised, nothing is cancelled, and every loop,
\* every worker process and the supervisor go on.
C8_Witness ==
    /\ reg_failed
    /\ ~stop_registration
    /\ pc["main"] = "loop"
    /\ Len(spawned) = 2
    /\ \A i \in 1..Len(spawned) :
         spawned[i].reg = "run" /\ spawned[i].alive /\ ENABLED RegistrationTick(i)

\* C9: stop_agent always completes: a thread that has asked a process to
\* terminate and waits for it can go on.
C9_TerminateCompletes ==
    \A t \in Threads : (ManagerAlive /\ pc[t] = "wait") => ENABLED WaitStep(t)

\* An orderly shutdown has been done: no worker process is left running and
\* the discovery engine the supervisor started has been terminated.
OrderlyShutdownDone ==
    /\ \A i \in 1..Len(spawned) : ~spawned[i].alive
    /\ discovery_process \notin { "starting", "up" }

\* The controller wrote the stop file, waited, and had to kill a manager
\* that had reached its run loop (its observer was running).
KilledInRunLoop ==
    ctl.pc = "stopped" /\ pc["main"] = "killed" /\ observer = "running"

\* C10: a stop request of either kind ends the supervisor by the same
\* orderly shutdown: it has been done when the supervisor has exited after
\* a signal caught in its run loop, and when stop_agent_manager has
\* returned after writing the stop file for a supervisor in its run loop.
C10_StopRequestsShutDownOrderly ==
    (pc["main"] = "exit0" \/ KilledInRunLoop) => OrderlyShutdownDone

StopAllAgentsReturned == pc["main"] \in { "join", "exit0" }

\* C12: after stop_all_agents has returned every Registration Loop is
\* cancelled, the running set and the process map are empty and no worker
\* process the supervisor launched is alive.
C12_ShutdownStopsEveryWorker ==
    StopAllAgentsReturned =>
        /\ stop_registration
        /\ running_agents = {}
        /\ \A n \in Names : processes[n] = 0
        /\ \A i \in 1..Len(spawned) : ~spawned[i].alive
\* The manager process has ended after handling a stop request: run()
\* returned, or the exception of a failed shutdown left it.
ShutdownEnded == observer = "stopped" /\ pc["main"] \in { "exit0", "raised" }

\* C13: when a shutdown has ended, the registry the supervisor spawned has
\* been terminated, and a registry that was already healthy at startup was
\* never the supervisor's child and is left alone.
C13_RegistryTerminatedIffLaunched ==
    ShutdownEnded =>
        /\ discovery_process \in { "none", "exited" }
        /\ foreign = "registry" => discovery_process = "none"
\* The positions of main inside _start_discovery_engine after its first
\* probe: port check, Popen and the wait loop.
LaunchStates == { "portcheck", "spawn_disc", "poll" }

\* C14: with a registry that answers the first health probe,
\* _start_discovery_engine returns True at once: it never gets to the port
\* check, the launch or the wait loop, it probes once and no registry
\* process is ever launched.
C14_HealthyFirstProbeReturns ==
    foreign = "registry" =>
        /\ pc["main"] \notin LaunchStates
        /\ discovery_process = "none"
        /\ probes <= 1
        /\ pc["main"] = "init_failed" => probes = 0

\* C14 witness: the bootstrap has returned True after its one probe and
\* start_all_agents is next.
C14_Witness ==
    /\ foreign = "registry"
    /\ pc["main"] = "start_all"
    /\ probes = 1
    /\ healthy_seen
    /\ discovery_process = "none"

\* C15: with the registry port bound by a process that does not answer the
\* health probe, _start_discovery_engine returns False at the port check:
\* construction fails, no registry process is launched and no worker.
C15_PortConflictFailsWithoutLaunch ==
    foreign = "other" =>
        /\ pc["main"] \in { "validate", "probe0", "portcheck", "init_failed",
                            "aborted", "killed" }
        /\ discovery_process = "none"
        /\ Len(spawned) = 0

\* C15 witness: construction has failed after the one failed probe and the
\* port check, with nothing launched.
C15_Witness ==
    /\ foreign = "other"
    /\ pc["main"] = "init_failed"
    /\ probes = 1
    /\ ~healthy_seen
    /\ discovery_process = "none"

\* The runner holds a handle for n, a name of its configuration, and the
\* process of that handle has exited.
Crashed(n) ==
    /\ runner_pc # "exit0"
    /\ n \in NamesOf(runner_agents)
    /\ running_processes[n] # 0
    /\ ~runner_spawned[running_processes[n]].alive

\* C16: a worker that exits on its own while its name is in the desired set
\* is eventually detected by a sweep of the supervisor, which drops the dead
\* handle and starts the worker again (unless the supervisor is stopped).
C16_CrashedWorkerIsRestarted ==
    \A n \in Names : Crashed(n) ~> ~Crashed(n)

\* The process recorded for name n has exited.
RecordedDead(n) == processes[n] # 0 /\ ~spawned[processes[n]].alive

\* No two entries of the document have the same name.
UniqueNames(doc) == Cardinality(NamesOf(doc)) = Len(doc)

\* C17: when the start loop of a reconcile pass over a desired set with
\* unique names comes to a worker whose recorded process has exited, it
\* launches the worker again: a process is spawned, or the launch is
\* attempted and fails.
C17_DeadDesiredWorkerIsRelaunched ==
    [][(/\ pc["watcher"] = "starts"
        /\ UniqueNames(cfg["watcher"])
        /\ idx["watcher"] <= Len(cfg["watcher"])
        /\ idx'["watcher"] = idx["watcher"] + 1
        /\ RecordedDead(cfg["watcher"][idx["watcher"]].name))
       => (Len(spawned') = Len(spawned) + 1 \/ lfail')]_vars

\* Neither the OpenAI key nor the complete Azure triple is in the
\* environment.
NoCredentials ==
    /\ ~creds.openai
    /\ ~(creds.azure_key /\ creds.azure_endpoint /\ creds.azure_version)

\* C18: without credentials construction fails in _validate_credentials:
\* main never gets past it, the registry is neither probed nor launched and
\* no worker is launched.
C18_NoCredentialsFailsFast ==
    NoCredentials =>
        /\ pc["main"] \in { "validate", "init_failed", "aborted", "killed" }
        /\ probes = 0
        /\ ~healthy_seen
        /\ discovery_process = "none"
        /\ Len(spawned) = 0

\* C18 witness: construction has failed with two of the three Azure
\* variables set, a healthy registry at hand and agents configured, and
\* nothing was probed or launched.
C18_Witness ==
    /\ pc["main"] = "init_failed"
    /\ NoCredentials
    /\ creds.azure_key /\ creds.azure_endpoint
    /\ foreign = "registry"
    /\ config.ok /\ Len(config.agents) = 2
    /\ probes = 0
    /\ Len(spawned) = 0
\* Some thread has called process.terminate() on spawned[i] in stop_agent
\* and has not yet returned from process.wait().
TerminationRequested(i) == \E t \in Threads : cur[t] = i

\* C19: when termination of a worker's process has been requested, by
\* shutdown or by a reconcile pass that read its document, the cancellation
\* of its Registration Loop has been requested already.
C19_CancelBeforeTerminate ==
    \A i \in 1..Len(spawned) :
        (loadOk /\ TerminationRequested(i)) => stop_registration
\* The observer thread is inside update_agents.
InUpdateAgents == pc["watcher"] \in { "stops", "wait", "starts", "ret" }

\* The main thread is inside stop_all_agents.
InStopAllAgents == pc["main"] \in { "stops", "wait", "sd_disc" }

\* C20: the writers of the running set and the process map are serialized:
\* while the observer thread is inside update_agents the main thread is not
\* inside stop_all_agents.
C20_FleetWritersSerialized == ~(InUpdateAgents /\ InStopAllAgents)
\* The step is the observer thread calling on_modified for a config.json
\* event.
ConfigEventDispatched == events' = events - 1 /\ pc'["main"] = pc["main"]

\* The step is the observer thread entering update_agents.
PassStarts == pc["watcher"] = "idle" /\ pc'["watcher"] = "stops"

C22_StopAgentNeverRaises == loadOk => (~failing /\ pc["watcher"] # "dead")
\* C24: while update_agents is in its start loop, no worker that the pass
\* removes (its name is not in the document the pass loaded) is still
\* running: every stop has taken effect before the first start.
C24_StopsBeforeStarts ==
    pc["watcher"] = "starts" =>
        \A i \in 1..Len(spawned) :
            spawned[i].alive => spawned[i].name \in NamesOf(cfg["watcher"])

\* C24 witness: the pass for D = [A] has stopped B (spawned first, now dead
\* and unrecorded) and then, still in its start loop, has started A.
C24_Witness ==
    /\ pc["watcher"] = "starts"
    /\ idx["watcher"] = 2
    /\ NamesOf(cfg["watcher"]) = { "A" }
    /\ Len(spawned) = 2
    /\ spawned[1].name = "B" /\ ~spawned[1].alive /\ processes["B"] = 0
    /\ spawned[2].name = "A" /\ spawned[2].alive /\ processes["A"] = 2
\* The step is an iteration of thread t's start loop that spawns nothing:
\* the entry is already running, or its Popen raised.
NothingSpawned(t) ==
    /\ pc[t] = "starts"
    /\ idx'[t] = idx[t] + 1
    /\ spawned' = spawned

\* C25: a launch that fails leaves FleetState as it was (no name recorded,
\* no handle, no registration thread) and the start loop goes on to the
\* next entry; and when a pass over a document with unique names ends with
\* a failed launch, an entry of the document is still not running, which
\* is the test by which the next pass calls start_agent for it.
C25_FailedLaunchLeavesNoTrace ==
    [][/\ \A t \in Threads :
            NothingSpawned(t) => (UNCHANGED fleetVars /\ pc'[t] = "starts")
       /\ (pc["watcher"] = "ret" /\ lfail /\ UniqueNames(cfg["watcher"])) =>
            \E k \in 1..Len(cfg["watcher"]) : IsNewAgent(cfg["watcher"][k])
      ]_vars

\* C25 witness: the pass for D = [A, B] has ended; the launch of A failed
\* and left nothing, the launch of B after it succeeded.
C25_Witness ==
    /\ pc["watcher"] = "ret"
    /\ lfail
    /\ NamesOf(cfg["watcher"]) = { "A", "B" }
    /\ running_agents = { "B" }
    /\ processes["A"] = 0
    /\ \A i \in 1..Len(spawned) : spawned[i].name = "B"
    /\ spawned[processes["B"]].alive
\* C26: the last modification event of a readable config.json is not lost:
\* when it is dispatched and no further event is queued, either a
\* reconcile pass starts or the running set already equals the names of
\* the document, whatever the time since the previous handled event.
C26_LastEventIsReconciled ==
    [][(ConfigEventDispatched /\ events' = 0 /\ config.ok) =>
          (PassStarts \/ running_agents = NamesOf(config.agents))]_vars
\* C28: every registration thread that can still make a registration call
\* belongs to a name in running_agents, and no two such threads have the
\* same name (the last reconcile pass having read config.json successfully).
C28_OneLoopPerRunningName ==
    loadOk =>
        \A i \in 1..Len(spawned) :
            RegistrationCallPossible(i) =>
                /\ spawned[i].name \in running_agents
                /\ \A j \in 1..Len(spawned) :
                       (j # i /\ RegistrationCallPossible(j)) =>
                           spawned[j].name # spawned[i].name
\* C29: the names in running_agents are exactly the keys of processes.
C29_RunningAgentsAreProcessKeys ==
    \A n \in Names : (n \in running_agents) <=> (processes[n] # 0)

\* C29 witness: start_all_agents started B; a completed update_agents then
\* stopped B and started A; main is in its run loop.
C29_Witness ==
    /\ pc["main"] = "loop"
    /\ pc["watcher"] = "idle"
    /\ Len(spawned) = 2
    /\ spawned[1].name = "B"
    /\ processes = [n \in Names |-> IF n = "A" THEN 2 ELSE 0]
    /\ running_agents = { "A" }
\* The step is a start_agent call of the runner's start loop for an entry
\* whose socket file exists and cannot be removed.
StartWithStuckSocket ==
    /\ runner_pc = "start"
    /\ runner_idx' = runner_idx + 1
    /\ SocketRemovalFails(runner_agents[runner_idx].name)

\* C23: when the stale socket cannot be removed the launch still proceeds:
\* Popen is called, and a process is spawned or Popen's own failure is
\* logged.
C23_LaunchProceedsAfterFailedRemoval ==
    [][StartWithStuckSocket =>
         (Len(runner_spawned') = Len(runner_spawned) + 1
            \/ runner_last' = "popen_failed")]_vars

\* C27: once the runner has exited after a signal, no process it launched
\* from a configuration with unique names is alive.
C27_NoWorkerSurvivesShutdown ==
    (runner_pc = "exit0" /\ UniqueNames(runner_agents)) =>
        \A i \in 1..Len(runner_spawned) : ~runner_spawned[i].alive
\* C30: stop_agent_manager without a handle returns False and touches
\* neither the stop file nor the manager; with a handle it writes the stop
\* file, polls at most PollLimit times, and returns True with the manager
\* ended, the handle cleared (is_running False) and the stop file removed.
C30_StopAgentManager ==
    [][/\ (ctl.pc = "stopped" /\ ctl' # ctl) =>
            (ctl'.result = "false" /\ ctl'.pc = "stopped"
               /\ stop_file' = stop_file /\ pc' = pc)
       /\ (ctl.pc = "holding" /\ ctl' # ctl) => (stop_file' /\ pc' = pc)
       /\ (ctl.pc = "polling" /\ ctl' # ctl) =>
            (ctl'.polls <= PollLimit /\ stop_file' /\ pc' = pc)
       /\ (ctl.pc = "finish" /\ ctl' # ctl) =>
            /\ ctl'.pc = "stopped" /\ ctl'.result = "true"
            /\ pc'["main"] \in Ended
            /\ pc["main"] \in Ended => pc' = pc
            /\ ~stop_file'
            /\ ~IsRunning']_vars

\* C30 witness: the first call polled PollLimit times, killed the manager in
\* its run loop and returned True; a second call, without a handle, returned
\* False and created no stop file.
C30_Witness ==
    /\ ctl = [pc |-> "stopped", polls |-> PollLimit, result |-> "false"]
    /\ pc["main"] = "killed"
    /\ observer = "running"
    /\ ~stop_file

====
